---- MODULE Spec2Model ----
(***************************************************************************)
(* `faas-cli template store list` (commands/template_store_list.go).      *)
(*                                                                         *)
(* One invocation of the command: cobra parses the flags into the package  *)
(* variables, runTemplateStoreList resolves the store URL, getTemplateInfo *)
(* issues one GET bounded by a 5 second context, the body is decoded with  *)
(* encoding/json, formatTemplatesOutput renders the table through a        *)
(* text/tabwriter and the result is written once to the command's output.  *)
(* Texts are TLA+ strings, built as fmt builds them.                       *)
(***************************************************************************)
EXTENDS Integers, Sequences, FiniteSets, TLC

\* ------------------------------------------------------------------ bounds
\* Longest JSON array the store serves in the model.
MaxRecords == 2

\* --------------------------------------------------------------- constants
DefaultTemplatesStore == "https://raw.githubusercontent.com/openfaas/store/master/templates.json"
allPlatforms == "allPlatforms"
availablePlatforms == <<"armhf", "x86_64", "arm64">>
\* http.StatusOK
StatusOK == 200
\* context.WithTimeout(req.Context(), 5*time.Second)
TimeoutSeconds == 5
\* the nil error
NilError == "<nil>"

\* ------------------------------------------------------------ text helpers
HasPrefix(s, p) == Len(s) >= Len(p) /\ SubSeq(s, 1, Len(p)) = p

RECURSIVE Spaces(_)
Spaces(n) == IF n <= 0 THEN "" ELSE " " \o Spaces(n - 1)

Max(a, b) == IF a >= b THEN a ELSE b

\* ----------------------------------------------------------- TemplateInfo
\* The struct, with its json tags: field name -> JSON key.
TemplateInfoTags ==
    [TemplateName |-> "template", Platform |-> "platform", Language |-> "language",
     Source |-> "source", Description |-> "description", Repository |-> "repo",
     Official |-> "official"]

\* ---------------------------------------------------------- json.Unmarshal
\* A response body is a JSON text, held by its parse: kind is the kind of the
\* top-level value ("malformed" and "empty" are texts that are no JSON value),
\* elems the elements of an array. An element is a JSON object: a function from
\* its keys to member values [k |-> "string" | "number" | "null", s |-> text].
JStr(s) == [k |-> "string", s |-> s]
JNum(s) == [k |-> "number", s |-> s]
JNullMember == [k |-> "null", s |-> ""]

\* Decoding one member into a string field: a missing key and a null leave the
\* zero value, a string is stored, anything else is an UnmarshalTypeError.
MemberOK(obj, key) == key \notin DOMAIN obj \/ obj[key].k \in {"string", "null"}
MemberValue(obj, key) ==
    IF key \in DOMAIN obj /\ obj[key].k = "string" THEN obj[key].s ELSE ""

DecodeObject(obj) == [f \in DOMAIN TemplateInfoTags |-> MemberValue(obj, TemplateInfoTags[f])]
ObjectOK(obj) == \A f \in DOMAIN TemplateInfoTags : MemberOK(obj, TemplateInfoTags[f])

\* json.Unmarshal(body, &templatesInfo) with templatesInfo a []TemplateInfo:
\* <<value, error>>.
UnmarshalTopLevelStrict(body) ==
    <<(<<>>), "json: cannot unmarshal " \o body.kind \o " into Go value of type []commands.TemplateInfo">>

UnmarshalTopLevel(body) ==
    IF body.kind = "null" THEN <<(<<>>), NilError>>
    ELSE <<(<<>>), "json: cannot unmarshal " \o body.kind \o " into Go value of type []commands.TemplateInfo">>

Unmarshal(body) ==
    CASE body.kind = "malformed" ->
            <<(<<>>), "invalid character '<' looking for beginning of value">>
      [] body.kind = "empty" ->
            <<(<<>>), "unexpected end of JSON input">>
      [] body.kind = "array" ->
            IF \A i \in 1..Len(body.elems) : ObjectOK(body.elems[i])
            THEN <<[i \in 1..Len(body.elems) |-> DecodeObject(body.elems[i])], NilError>>
            ELSE <<(<<>>), "json: cannot unmarshal number into Go struct field TemplateInfo.template of type string">>
      [] OTHER -> UnmarshalTopLevel(body)

\* ------------------------------------------------- checkExistingPlatforms
\* The range loop over availablePlatforms: i is the 1-based position, so the
\* loop index lastPlatform is i - 1; a match breaks out with err as it stands.
RECURSIVE checkExistingPlatformsLoopNoBreak(_, _, _)
checkExistingPlatformsLoopNoBreak(platform, i, err) ==
    IF i > Len(availablePlatforms) THEN err
    ELSE IF availablePlatforms[i] # platform /\ Len(availablePlatforms) - 1 = i - 1
         THEN checkExistingPlatformsLoopNoBreak(platform, i + 1,
                "\nCurrently supported platforms are: armhf, arm64 and x86_64. Unable to find: "
                    \o platform \o "\n\n")
         ELSE checkExistingPlatformsLoopNoBreak(platform, i + 1, err)

RECURSIVE checkExistingPlatformsLoop(_, _, _)
checkExistingPlatformsLoop(platform, i, err) ==
    IF i > Len(availablePlatforms) THEN err
    ELSE IF availablePlatforms[i] = platform THEN err
    ELSE IF Len(availablePlatforms) - 1 = i - 1
         THEN checkExistingPlatformsLoop(platform, i + 1,
                "\nCurrently supported platforms are: armhf, arm64 and x86_64. Unable to find: "
                    \o platform \o "\n\n")
         ELSE checkExistingPlatformsLoop(platform, i + 1, err)

checkExistingPlatforms(platform) == checkExistingPlatformsLoop(platform, 1, NilError)

\* --------------------------------------------------------- text/tabwriter
\* The writer's buffer is the lines written to it, each line the cells that
\* "\t" separates; every cell but the last of a line is tab-terminated.
\* NewWriter(&buff, 0, 0, 1, ' ', 0): minwidth 0, tabwidth 0, padding 1.
TabMinWidth == 0
TabPadding == 1
EmptyLine == <<"">>

SetMax(S) == CHOOSE w \in S : \A v \in S : w >= v

\* Column j of line i spans the run of consecutive lines around i that have a
\* tab-terminated cell j; the column is as wide as its widest cell plus padding.
ColumnBlock(lines, i, j) ==
    {k \in 1..Len(lines) :
        \A m \in (IF k <= i THEN k..i ELSE i..k) : Len(lines[m]) > j}

ColumnWidth(lines, i, j) ==
    Max(TabMinWidth, SetMax({Len(lines[k][j]) + TabPadding : k \in ColumnBlock(lines, i, j)}))

RECURSIVE FlushCells(_, _, _)
FlushCells(lines, i, j) ==
    IF j = Len(lines[i]) THEN lines[i][j] \o "\n"
    ELSE lines[i][j] \o Spaces(ColumnWidth(lines, i, j) - Len(lines[i][j]))
            \o FlushCells(lines, i, j + 1)

RECURSIVE FlushFrom(_, _)
FlushFrom(lines, i) ==
    IF i > Len(lines) THEN "" ELSE FlushCells(lines, i, 1) \o FlushFrom(lines, i + 1)

\* lineWriter.Flush() followed by buff.String()
Flush(lines) == FlushFrom(lines, 1)

\* ----------------------------------------------------- formatBasicOutput
BasicHeader == <<"NAME", "SOURCE", "DESCRIPTION">>
BasicRow(template) == <<template.TemplateName, template.Source, template.Description>>

RECURSIVE BasicRangeFiltered(_, _, _)
BasicRangeFiltered(templates, platform, i) ==
    IF i > Len(templates) THEN <<>>
    ELSE (IF templates[i].Platform = platform THEN <<BasicRow(templates[i])>> ELSE <<>>)
            \o BasicRangeFiltered(templates, platform, i + 1)

formatBasicOutput(templates, platform) ==
    IF platform # allPlatforms
    THEN <<BasicHeader>> \o BasicRangeFiltered(templates, platform, 1)
    ELSE <<BasicHeader>> \o [i \in 1..Len(templates) |-> BasicRow(templates[i])]

\* --------------------------------------------------- formatVerboseOutput
VerboseHeader == <<"NAME", "LANGUAGE", "PLATFORM", "SOURCE", "DESCRIPTION">>
VerboseRow(template) ==
    <<template.TemplateName, template.Language, template.Platform,
      template.Source, template.Description>>

RECURSIVE VerboseRangeFiltered(_, _, _)
VerboseRangeFiltered(templates, platform, i) ==
    IF i > Len(templates) THEN <<>>
    ELSE (IF templates[i].Platform = platform THEN <<VerboseRow(templates[i])>> ELSE <<>>)
            \o VerboseRangeFiltered(templates, platform, i + 1)

formatVerboseOutputUnfiltered(templates, platform) ==
    <<VerboseHeader>> \o [i \in 1..Len(templates) |-> VerboseRow(templates[i])]

formatVerboseOutput(templates, platform) ==
    IF platform # allPlatforms
    THEN <<VerboseHeader>> \o VerboseRangeFiltered(templates, platform, 1)
    ELSE <<VerboseHeader>> \o [i \in 1..Len(templates) |-> VerboseRow(templates[i])]

\* -------------------------------------------------- formatTemplatesOutput
formatTemplatesOutput(templates, verbose, platform) ==
    IF platform # allPlatforms /\ checkExistingPlatforms(platform) # NilError
    THEN checkExistingPlatforms(platform)
    ELSE Flush(<<EmptyLine>>
               \o (IF verbose THEN formatVerboseOutput(templates, platform)
                              ELSE formatBasicOutput(templates, platform))
               \o <<EmptyLine>>)

\* ------------------------------------------------------------ the inputs
\* What --url may be given, and what the environment may hold.
FlagURL == "http://127.0.0.1:8080/templates.json"
EnvURL == "https://example.com/store.json"
BadURL == "http://store/%zz"
NoSchemeURL == "templates.json"
NotGiven == "<not given>"
UrlArgs == {NotGiven, FlagURL, "", BadURL, NoSchemeURL}
EnvValues == {"", EnvURL}
PlatformArgs == {NotGiven, "armhf", "x86_64", "arm64", "mips", ""}
VerboseArgs == {NotGiven, "true"}
Statuses == {200, 204, 404}

\* The objects the store serves.
SampleObjects ==
    { [key \in {"template", "platform", "language", "source", "description", "repo", "official"} |->
          CASE key = "template" -> JStr("go")
            [] key = "platform" -> JStr("x86_64")
            [] key = "language" -> JStr("Go")
            [] key = "source" -> JStr("openfaas")
            [] key = "description" -> JStr("Golang")
            [] key = "repo" -> JStr("https://github.com/openfaas/templates")
            [] OTHER -> JStr("true")],
      [key \in {"template", "platform", "source", "stars"} |->
          CASE key = "template" -> JStr("py")
            [] key = "platform" -> JStr("arm64")
            [] key = "source" -> JStr("src")
            [] OTHER -> JNum("12")],
      [key \in {"template", "platform", "description"} |->
          CASE key = "template" -> JStr("rb")
            [] key = "platform" -> JNullMember
            [] OTHER -> JStr("Ruby")],
      [key \in {"template", "platform", "language"} |->
          CASE key = "template" -> JStr("c")
            [] key = "platform" -> JStr("armhf")
            [] OTHER -> JStr("C")],
      [key \in {"template", "platform"} |->
          CASE key = "template" -> JNum("7")
            [] OTHER -> JStr("arm64")] }

SeqsUpTo(S, n) == UNION {[1..m -> S] : m \in 0..n}

Bodies ==
    {[kind |-> "array", elems |-> e] : e \in SeqsUpTo(SampleObjects, MaxRecords)}
    \cup {[kind |-> k, elems |-> <<>>] :
            k \in {"object", "string", "number", "bool", "null", "malformed", "empty"}}

\* ------------------------------------------------------------- the state
VARIABLES
    pc,                   \* where the invocation stands
    templateStoreURL,     \* package variable bound to --url
    platform,             \* package variable bound to --platform
    verbose,              \* package variable bound to --verbose
    urlFlagChanged,       \* whether --url was given on the command line
    envTemplateRepoStore, \* os.Getenv(templateStoreURLEnvironment)
    storeURL,             \* the resolved URL, the one requested
    requests,             \* calls of client.Do
    elapsed,              \* seconds run on the request context's timer
    ctxErr,               \* reqContext.Err()
    deferred,             \* getTemplateInfo's deferred calls
    resStatus,            \* res.StatusCode, 0 before a response
    bodyAcquired,         \* a non-nil res.Body was handed to the function
    bodyDrained,          \* res.Body was read to EOF
    bodyCloseCalls,       \* calls of res.Body.Close()
    body,                 \* what ioutil.ReadAll returned
    templatesInfo,        \* getTemplateInfo's first result
    templatesErr,         \* getTemplateInfo's second result
    formatCalls,          \* calls of formatTemplatesOutput
    formattedOutput,      \* its result
    stdout,               \* the writes to cmd.OutOrStdout()
    cmdErr                \* what runTemplateStoreList returned

vars == <<pc, templateStoreURL, platform, verbose, urlFlagChanged, envTemplateRepoStore,
          storeURL, requests, elapsed, ctxErr, deferred, resStatus, bodyAcquired,
          bodyDrained, bodyCloseCalls, body, templatesInfo, templatesErr, formatCalls,
          formattedOutput, stdout, cmdErr>>

flagVars == <<templateStoreURL, platform, verbose, urlFlagChanged, envTemplateRepoStore>>
outVars == <<formatCalls, formattedOutput, stdout>>
resVars == <<resStatus, bodyAcquired, bodyDrained, body>>

NoBody == [kind |-> "none", elems |-> <<>>]

\* init(): the flags are registered with their defaults; nothing has run.
Init ==
    /\ pc = "start"
    /\ templateStoreURL = DefaultTemplatesStore
    /\ platform = allPlatforms
    /\ verbose = FALSE
    /\ urlFlagChanged = FALSE
    /\ envTemplateRepoStore \in EnvValues
    /\ storeURL = ""
    /\ requests = 0
    /\ elapsed = 0
    /\ ctxErr = NilError
    /\ deferred = <<>>
    /\ resStatus = 0
    /\ bodyAcquired = FALSE
    /\ bodyDrained = FALSE
    /\ bodyCloseCalls = 0
    /\ body = NoBody
    /\ templatesInfo = <<>>
    /\ templatesErr = NilError
    /\ formatCalls = 0
    /\ formattedOutput = ""
    /\ stdout = <<>>
    /\ cmdErr = NilError

\* ------------------------------------------------------- flags and URL
\* StringVarP / BoolVarP: the variable holds the default unless the flag is given.
StringFlag(arg, default) == IF arg = NotGiven THEN default ELSE arg
BoolFlag(arg) == arg = "true"

\* getTemplateStoreURL(argumentURL, environmentURL, defaultURL)
getTemplateStoreURL(argumentURL, environmentURL, defaultURL) ==
    IF argumentURL # "" THEN argumentURL
    ELSE IF environmentURL # "" THEN environmentURL
    ELSE defaultURL

\* http.NewRequest parses the URL: a "%" that two hex digits do not follow is
\* an invalid escape.
HexDigits == {"0", "1", "2", "3", "4", "5", "6", "7", "8", "9",
              "a", "b", "c", "d", "e", "f", "A", "B", "C", "D", "E", "F"}
ValidEscapes(u) ==
    \A i \in 1..Len(u) :
        SubSeq(u, i, i) = "%"
            => /\ i + 2 <= Len(u)
               /\ SubSeq(u, i + 1, i + 1) \in HexDigits
               /\ SubSeq(u, i + 2, i + 2) \in HexDigits
NewRequestOK(u) == ValidEscapes(u)

\* client.Do sends only http and https requests.
SupportedScheme(u) == HasPrefix(u, "http://") \/ HasPrefix(u, "https://")

\* url.Error, as client.Do returns it
DoError(u, cause) == "Get \"" \o u \o "\": " \o cause

\* ---------------------------------------------------------- the returns
CountCloses(d) == Cardinality({i \in 1..Len(d) : d[i] = "Body.Close"})

\* The deferred calls d run when getTemplateInfo returns: res.Body.Close() and
\* cancel(), which ends a context c that has not expired.
RunDeferred(d, c) ==
    /\ bodyCloseCalls' = bodyCloseCalls + CountCloses(d)
    /\ ctxErr' = IF c = NilError /\ (\E i \in 1..Len(d) : d[i] = "cancel")
                 THEN "context canceled" ELSE c
    /\ deferred' = <<>>

\* runTemplateStoreList's `return fmt.Errorf(...)`
WrapTemplatesErrBare(e) == e
WrapTemplatesErr(e) == "error while getting templates info: " \o e

\* getTemplateInfo returns (nil, e) and runTemplateStoreList returns at once.
FetchFailed(e, d, c) ==
    /\ RunDeferred(d, c)
    /\ templatesInfo' = <<>>
    /\ templatesErr' = e
    /\ cmdErr' = WrapTemplatesErr(e)
    /\ pc' = "done"

\* `defer cancel()` and `defer res.Body.Close()`
DeferCancel(d) == Append(d, "cancel")
DeferBodyCloseForgotten(d) == d
DeferBodyClose(d) == Append(d, "Body.Close")

\* `res.StatusCode != http.StatusOK` is the failure
StatusAcceptedAny2xx(status) == status >= 200 /\ status < 300
StatusAccepted(status) == status = StatusOK

\* ------------------------------------------------------------ the actions
\* runTemplateStoreList, from its first line to the point where client.Do
\* waits for the server; url is the value of templateStoreURL.
StartFetch(url) ==
    /\ storeURL' = getTemplateStoreURL(url, envTemplateRepoStore, DefaultTemplatesStore)
    /\ IF ~NewRequestOK(storeURL')
       THEN /\ FetchFailed("error while trying to create request to take template info: "
                               \o "parse \"" \o storeURL' \o "\": invalid URL escape",
                           <<>>, NilError)
            /\ requests' = requests
       ELSE IF ~SupportedScheme(storeURL')
       THEN /\ FetchFailed("error while requesting template list: "
                               \o DoError(storeURL', "unsupported protocol scheme \"\""),
                           DeferCancel(<<>>), NilError)
            /\ requests' = requests + 1
       ELSE /\ deferred' = DeferCancel(<<>>)
            /\ requests' = requests + 1
            /\ pc' = "do"
            /\ UNCHANGED <<bodyCloseCalls, ctxErr, templatesInfo, templatesErr, cmdErr>>
    /\ UNCHANGED <<envTemplateRepoStore, elapsed, resVars, outVars>>

\* An invocation that validates --platform before it fetches.
ExecuteValidatingFirst(urlArg, platformArg, verboseArg) ==
    /\ pc = "start"
    /\ templateStoreURL' = StringFlag(urlArg, DefaultTemplatesStore)
    /\ platform' = StringFlag(platformArg, allPlatforms)
    /\ verbose' = BoolFlag(verboseArg)
    /\ urlFlagChanged' = (urlArg # NotGiven)
    /\ IF platform' # allPlatforms /\ checkExistingPlatforms(platform') # NilError
       THEN /\ formattedOutput' = checkExistingPlatforms(platform')
            /\ formatCalls' = formatCalls + 1
            /\ stdout' = Append(stdout, formattedOutput')
            /\ pc' = "done"
            /\ UNCHANGED <<envTemplateRepoStore, storeURL, requests, elapsed, ctxErr,
                           deferred, resVars, bodyCloseCalls, templatesInfo, templatesErr,
                           cmdErr>>
       ELSE StartFetch(templateStoreURL')

\* cobra binds the flags to the package variables and calls runTemplateStoreList.
Execute(urlArg, platformArg, verboseArg) ==
    /\ pc = "start"
    /\ templateStoreURL' = StringFlag(urlArg, DefaultTemplatesStore)
    /\ platform' = StringFlag(platformArg, allPlatforms)
    /\ verbose' = BoolFlag(verboseArg)
    /\ urlFlagChanged' = (urlArg # NotGiven)
    /\ StartFetch(templateStoreURL')

\* A second passes while the function waits on the network.
Tick ==
    /\ pc \in {"do", "readAll"}
    /\ elapsed < TimeoutSeconds
    /\ elapsed' = elapsed + 1
    /\ UNCHANGED <<pc, flagVars, storeURL, requests, ctxErr, deferred, resVars,
                   bodyCloseCalls, templatesInfo, templatesErr, outVars, cmdErr>>

\* client.Do returns an error: the connection failed.
DoFails ==
    /\ pc = "do"
    /\ elapsed < TimeoutSeconds
    /\ FetchFailed("error while requesting template list: "
                       \o DoError(storeURL, "dial tcp: connect: connection refused"),
                   deferred, ctxErr)
    /\ UNCHANGED <<flagVars, storeURL, requests, elapsed, resVars, outVars>>

\* The context expires before the response headers arrive.
DoTimeout ==
    /\ pc = "do"
    /\ elapsed = TimeoutSeconds
    /\ FetchFailed("error while requesting template list: "
                       \o DoError(storeURL, "context deadline exceeded"),
                   deferred, "context deadline exceeded")
    /\ UNCHANGED <<flagVars, storeURL, requests, elapsed, resVars, outVars>>

\* client.Do returns a response: the nil-body check, the deferred Close and the
\* status check follow.
DoResponds(status, bodyNil) ==
    /\ pc = "do"
    /\ elapsed < TimeoutSeconds
    /\ resStatus' = status
    /\ bodyAcquired' = ~bodyNil
    /\ IF bodyNil
       THEN FetchFailed("error empty response body from: " \o templateStoreURL,
                        deferred, ctxErr)
       ELSE IF ~StatusAccepted(status)
       THEN FetchFailed("unexpected status code wanted: " \o ToString(StatusOK)
                            \o " got: " \o ToString(status),
                        DeferBodyClose(deferred), ctxErr)
       ELSE /\ deferred' = DeferBodyClose(deferred)
            /\ pc' = "readAll"
            /\ UNCHANGED <<bodyCloseCalls, ctxErr, templatesInfo, templatesErr, cmdErr>>
    /\ UNCHANGED <<flagVars, storeURL, requests, elapsed, bodyDrained, body, outVars>>

\* ioutil.ReadAll returns the whole body.
ReadAllReturns(bytes) ==
    /\ pc = "readAll"
    /\ elapsed < TimeoutSeconds
    /\ body' = bytes
    /\ bodyDrained' = TRUE
    /\ pc' = "unmarshal"
    /\ UNCHANGED <<flagVars, storeURL, requests, elapsed, ctxErr, deferred, resStatus,
                   bodyAcquired, bodyCloseCalls, templatesInfo, templatesErr, outVars,
                   cmdErr>>

\* ioutil.ReadAll returns an error: the connection broke.
ReadAllFails ==
    /\ pc = "readAll"
    /\ elapsed < TimeoutSeconds
    /\ FetchFailed("error while reading data from templates body: unexpected EOF",
                   deferred, ctxErr)
    /\ UNCHANGED <<flagVars, storeURL, requests, elapsed, resVars, outVars>>

ReadAllTimeoutLate ==
    /\ pc = "readAll"
    /\ elapsed > TimeoutSeconds
    /\ FetchFailed("error while reading data from templates body: context deadline exceeded",
                   deferred, "context deadline exceeded")
    /\ UNCHANGED <<flagVars, storeURL, requests, elapsed, resVars, outVars>>

\* The context expires while the body is being read.
ReadAllTimeout ==
    /\ pc = "readAll"
    /\ elapsed = TimeoutSeconds
    /\ FetchFailed("error while reading data from templates body: context deadline exceeded",
                   deferred, "context deadline exceeded")
    /\ UNCHANGED <<flagVars, storeURL, requests, elapsed, resVars, outVars>>

\* json.Unmarshal and getTemplateInfo's last return.
UnmarshalBody ==
    /\ pc = "unmarshal"
    /\ IF Unmarshal(body)[2] # NilError
       THEN FetchFailed("error while unmarshalling into templates struct: "
                            \o Unmarshal(body)[2],
                        deferred, ctxErr)
       ELSE /\ RunDeferred(deferred, ctxErr)
            /\ templatesInfo' = Unmarshal(body)[1]
            /\ templatesErr' = NilError
            /\ pc' = "format"
            /\ UNCHANGED cmdErr
    /\ UNCHANGED <<flagVars, storeURL, requests, elapsed, resVars, outVars>>

\* formattedOutput := formatTemplatesOutput(templatesInfo, verbose, platform)
FormatOutput ==
    /\ pc = "format"
    /\ formattedOutput' = formatTemplatesOutput(templatesInfo, verbose, platform)
    /\ formatCalls' = formatCalls + 1
    /\ pc' = "print"
    /\ UNCHANGED <<flagVars, storeURL, requests, elapsed, ctxErr, deferred, resVars,
                   bodyCloseCalls, templatesInfo, templatesErr, stdout, cmdErr>>

PrintOutputFailingOnMessage ==
    /\ pc = "print"
    /\ stdout' = Append(stdout, formattedOutput)
    /\ cmdErr' = IF HasPrefix(formattedOutput, "\nCurrently supported platforms")
                 THEN formattedOutput ELSE NilError
    /\ pc' = "done"
    /\ UNCHANGED <<flagVars, storeURL, requests, elapsed, ctxErr, deferred, resVars,
                   bodyCloseCalls, templatesInfo, templatesErr, formatCalls,
                   formattedOutput>>

\* fmt.Fprintf(cmd.OutOrStdout(), "%s", formattedOutput); return nil
PrintOutput ==
    /\ pc = "print"
    /\ stdout' = Append(stdout, formattedOutput)
    /\ cmdErr' = NilError
    /\ pc' = "done"
    /\ UNCHANGED <<flagVars, storeURL, requests, elapsed, ctxErr, deferred, resVars,
                   bodyCloseCalls, templatesInfo, templatesErr, formatCalls,
                   formattedOutput>>

Run == \E u \in UrlArgs, p \in PlatformArgs, v \in VerboseArgs : Execute(u, p, v)
Respond == \E status \in Statuses, bodyNil \in BOOLEAN : DoResponds(status, bodyNil)
Deliver == \E bytes \in Bodies : ReadAllReturns(bytes)

Next ==
    \/ Run
    \/ Tick
    \/ DoFails
    \/ DoTimeout
    \/ Respond
    \/ Deliver
    \/ ReadAllFails
    \/ ReadAllTimeout
    \/ UnmarshalBody
    \/ FormatOutput
    \/ PrintOutput

Spec == Init /\ [][Next]_vars

\* The steps of getTemplateInfo that are the program's own, its clock included:
\* at every point before its return exactly one of them is enabled.
FetchProgram ==
    \/ Run
    \/ Tick
    \/ DoTimeout
    \/ ReadAllTimeout
    \/ UnmarshalBody

\* getTemplateInfo runs and its clock advances; the server owes nothing.
LiveSpec == Spec /\ WF_vars(FetchProgram)

\* ================================================================ claims
\* The platforms the specification names as supported.
SupportedPlatforms == {"armhf", "x86_64", "arm64"}
Unsupported(p) == p # allPlatforms /\ p \notin SupportedPlatforms
Returned == pc = "done"
\* getTemplateInfo has returned
FetchReturned == pc \in {"format", "print", "done"}
\* getTemplateInfo has returned without error
Fetched == pc \in {"format", "print", "done"} /\ templatesErr = NilError
FetchErrorPrefix == "error while getting templates info: "
PlatformMessage == "Currently supported platforms are: armhf, arm64 and x86_64. Unable to find: "
DeadlineExceeded == "context deadline exceeded"
Contains(s, sub) ==
    \E k \in 1..(Len(s) - Len(sub) + 1) : SubSeq(s, k, k + Len(sub) - 1) = sub

\* The members of a finite set of numbers, in increasing order.
Sorted(S) ==
    [k \in 1..Cardinality(S) |-> CHOOSE x \in S : Cardinality({y \in S : y < x}) = k - 1]

\* The words of a line: the runs of characters other than the space.
Words(line) ==
    LET IsChar(i) == i >= 1 /\ i <= Len(line) /\ SubSeq(line, i, i) # " "
        starts == Sorted({i \in 1..Len(line) : IsChar(i) /\ ~IsChar(i - 1)})
        ends == Sorted({i \in 1..Len(line) : IsChar(i) /\ ~IsChar(i + 1)})
    IN [k \in 1..Len(starts) |-> SubSeq(line, starts[k], ends[k])]

\* The text t as its lines ("\n" ends a line), each line as its words.
WordsOfLines(t) ==
    LET breaks == Sorted({i \in 1..Len(t) : SubSeq(t, i, i) = "\n"})
        From(k) == IF k = 1 THEN 1 ELSE breaks[k - 1] + 1
    IN [k \in 1..Len(breaks) |-> Words(SubSeq(t, From(k), breaks[k] - 1))]

NonEmpty(cells) == SelectSeq(cells, LAMBDA c : c # "")

\* C1: the URL fetched is the --url value when the flag is given, else the
\* environment value when it is non-empty, else the built-in default; here the
\* clause the claim singles out: with --url not given and the environment
\* variable set, the environment URL is the one fetched.
C1_EnvURLFetchedWhenFlagAbsent ==
    (pc # "start" /\ ~urlFlagChanged /\ envTemplateRepoStore # "")
        => storeURL = envTemplateRepoStore

\* C2: whenever fetch or decode fails, the command returns a non-nil error whose
\* text starts with "error while getting templates info: ", the formatter is
\* never invoked and nothing is written to the output stream.
C2_FetchFailureAborts ==
    (Returned /\ templatesErr # NilError)
        => /\ cmdErr # NilError
           /\ HasPrefix(cmdErr, FetchErrorPrefix)
           /\ Len(cmdErr) > Len(FetchErrorPrefix)
           /\ formatCalls = 0
           /\ formattedOutput = ""
           /\ stdout = <<>>

C2_Witness ==
    /\ Returned
    /\ HasPrefix(templatesErr, "error while unmarshalling into templates struct: ")
    /\ platform = "arm64"

\* C3: whenever fetch and decode succeed, the command returns no error and writes
\* the formatter's result to the output stream exactly once, for every platform;
\* for an unsupported platform what is written is the invalid-platform message.
C3_SuccessPrintsOnce ==
    /\ Len(stdout) <= 1
    /\ (Returned /\ templatesErr = NilError)
        => /\ cmdErr = NilError
           /\ formatCalls = 1
           /\ stdout = <<formattedOutput>>
           /\ Unsupported(platform)
                => /\ Contains(stdout[1], PlatformMessage \o platform)
                   /\ ~Contains(stdout[1], "NAME")

C3_Witness ==
    /\ Returned
    /\ templatesErr = NilError
    /\ platform = "mips"
    /\ Len(templatesInfo) = 2
    /\ Len(stdout) = 1

\* C4 (as claimed): for every unsupported platform the formatter returns exactly
\* "Currently supported platforms are: armhf, arm64 and x86_64. Unable to find:
\* {platform}".
C4_ExactMessage ==
    (formatCalls = 1 /\ Unsupported(platform))
        => formattedOutput = PlatformMessage \o platform

\* C4 (amended): for every unsupported platform, the empty string included, every
\* record list and either verbose setting, the formatter returns exactly the
\* message preceded by one newline and followed by two, and no header or rows;
\* for each of the three supported platforms the message is never returned.
C4_FramedMessage ==
    formatCalls = 1
        => /\ Unsupported(platform)
                => formattedOutput = "\n" \o PlatformMessage \o platform \o "\n\n"
           /\ platform \in SupportedPlatforms
                => /\ ~Contains(formattedOutput, "Currently supported platforms")
                   /\ WordsOfLines(formattedOutput)[2][1] = "NAME"

C4_Witness ==
    /\ formatCalls = 1
    /\ platform = ""
    /\ verbose
    /\ Len(templatesInfo) = 2
    /\ Contains(formattedOutput, "Unable to find: ")

\* C5: in both modes, with the all-platforms sentinel the table has one row per
\* record in input order; with a supported platform the rows are exactly the
\* records whose platform equals the requested one, in their original order.
ExpectedRecords ==
    IF platform = allPlatforms THEN templatesInfo
    ELSE SelectSeq(templatesInfo, LAMBDA t : t.Platform = platform)
ExpectedCells(t) ==
    IF verbose THEN <<t.TemplateName, t.Language, t.Platform, t.Source, t.Description>>
    ELSE <<t.TemplateName, t.Source, t.Description>>
ExpectedHeader ==
    IF verbose THEN <<"NAME", "LANGUAGE", "PLATFORM", "SOURCE", "DESCRIPTION">>
    ELSE <<"NAME", "SOURCE", "DESCRIPTION">>

C5_RowsAreTheMatchingRecords ==
    (formatCalls = 1 /\ ~Unsupported(platform))
        => LET lines == WordsOfLines(formattedOutput) IN
           /\ Len(lines) = Len(ExpectedRecords) + 3
           /\ lines[1] = <<>>
           /\ lines[2] = ExpectedHeader
           /\ \A i \in 1..Len(ExpectedRecords) :
                lines[i + 2] = NonEmpty(ExpectedCells(ExpectedRecords[i]))
           /\ lines[Len(lines)] = <<>>

C5_Witness ==
    /\ formatCalls = 1
    /\ platform = "arm64"
    /\ verbose
    /\ Len(templatesInfo) = 2
    /\ templatesInfo[1].Platform = "x86_64"
    /\ templatesInfo[2].Platform = "arm64"
    /\ Len(WordsOfLines(formattedOutput)) = 4

\* C6 (as claimed): every response whose status is not 200 fails the fetch with
\* "unexpected status code wanted: 200 got: <status>", whatever the state of the
\* body, and no records are returned.
C6_Non200IsStatusError ==
    (Returned /\ resStatus # 0 /\ resStatus # 200)
        => /\ templatesErr = "unexpected status code wanted: 200 got: " \o ToString(resStatus)
           /\ templatesInfo = <<>>

\* C6 (amended): every response with a non-nil body whose status is not 200 fails
\* the fetch with the unexpected-status error carrying 200 and the status
\* received, and no records; a response with a nil body fails with the
\* empty-body error whatever its status.
C6_Non200WithBodyIsStatusError ==
    (Returned /\ resStatus # 0)
        => /\ (bodyAcquired /\ resStatus # 200)
                => /\ templatesErr =
                        "unexpected status code wanted: 200 got: " \o ToString(resStatus)
                   /\ templatesInfo = <<>>
           /\ ~bodyAcquired
                => /\ HasPrefix(templatesErr, "error empty response body from: ")
                   /\ templatesInfo = <<>>

C6_Witness ==
    /\ Returned
    /\ resStatus = 404
    /\ bodyAcquired
    /\ HasPrefix(cmdErr, FetchErrorPrefix \o "unexpected status code")

\* C7 (as claimed): on every path on which a body was acquired, the body is fully
\* drained and then released before the function returns.
C7_DrainedAndReleased ==
    (bodyAcquired /\ pc \in {"format", "print", "done"})
        => bodyDrained /\ bodyCloseCalls = 1

\* C7 (amended): on every path on which a body was acquired the body is released
\* exactly once, when the function returns and not before; it is fully drained
\* first only where ReadAll succeeded (success and decode failure), not on the
\* non-200 path nor where the read fails.
C7_ReleasedOnce ==
    /\ bodyCloseCalls <= 1
    /\ bodyCloseCalls = 1 => bodyAcquired /\ pc \in {"format", "print", "done"}
    /\ (bodyAcquired /\ pc \in {"format", "print", "done"})
        => /\ bodyCloseCalls = 1
           /\ bodyDrained <=>
                \/ templatesErr = NilError
                \/ HasPrefix(templatesErr, "error while unmarshalling into templates struct: ")

C7_Witness ==
    /\ Returned
    /\ bodyAcquired
    /\ ~bodyDrained
    /\ resStatus = 404
    /\ bodyCloseCalls = 1

\* getTemplateInfo has read the body and returned
Decoded == bodyDrained /\ pc \in {"format", "print", "done"}
IsDecodeError(e) == HasPrefix(e, "error while unmarshalling into templates struct: ")
\* The documented response schema: record field -> JSON member.
SchemaKey ==
    [TemplateName |-> "template", Platform |-> "platform", Language |-> "language",
     Source |-> "source", Description |-> "description", Repository |-> "repo",
     Official |-> "official"]
SchemaFields == {"TemplateName", "Platform", "Language", "Source", "Description",
                 "Repository", "Official"}
\* every documented member the object has is a string or null
WellTyped(obj) ==
    \A f \in SchemaFields :
        SchemaKey[f] \in DOMAIN obj => obj[SchemaKey[f]].k \in {"string", "null"}

\* C8 (as claimed): every 200 body that is a JSON value other than an array
\* (object, string, number, boolean, null) and every malformed body yields a
\* DecodeError and no records.
C8_NonArrayIsDecodeError ==
    (Decoded /\ body.kind # "array")
        => IsDecodeError(templatesErr) /\ templatesInfo = <<>>

\* C8 (amended): the body [] yields an empty sequence and no error; so does the
\* body null; every other non-array JSON value and every malformed body yields a
\* DecodeError and no records; an array of objects whose documented members are
\* strings or null yields one record per element in the delivered order, with
\* missing and null members set to the empty string and other members ignored;
\* an array holding an object with a documented member of another type yields a
\* DecodeError.
C8_DecodeOutcomes ==
    Decoded
        => /\ body.kind = "null" => templatesErr = NilError /\ templatesInfo = <<>>
           /\ body.kind \in {"object", "string", "number", "bool", "malformed", "empty"}
                => IsDecodeError(templatesErr) /\ templatesInfo = <<>>
           /\ (body.kind = "array" /\ \A i \in 1..Len(body.elems) : WellTyped(body.elems[i]))
                => /\ templatesErr = NilError
                   /\ Len(templatesInfo) = Len(body.elems)
                   /\ \A i \in 1..Len(body.elems) : \A f \in SchemaFields :
                        templatesInfo[i][f] =
                            IF SchemaKey[f] \in DOMAIN body.elems[i]
                               /\ body.elems[i][SchemaKey[f]].k = "string"
                            THEN body.elems[i][SchemaKey[f]].s ELSE ""
           /\ (body.kind = "array" /\ \E i \in 1..Len(body.elems) : ~WellTyped(body.elems[i]))
                => IsDecodeError(templatesErr) /\ templatesInfo = <<>>

C8_Witness ==
    /\ Returned
    /\ bodyDrained
    /\ body.kind = "null"
    /\ templatesErr = NilError
    /\ cmdErr = NilError
    /\ Len(stdout) = 1

\* C9 (as claimed): when the 5 second timeout fires, before the headers or while
\* the body is being sent, the fetch returns a timeout-classed TransportError
\* ("error while requesting template list: ...") and no records.
C9_TimeoutIsTransportError ==
    (Returned /\ ctxErr = DeadlineExceeded)
        => /\ HasPrefix(templatesErr, "error while requesting template list: ")
           /\ Contains(templatesErr, DeadlineExceeded)
           /\ templatesInfo = <<>>

\* C9 (amended): getTemplateInfo always terminates and client.Do is called at
\* most once; if the server stalls before sending the headers the timeout makes
\* the fetch return the transport error, and if it stalls while sending the body
\* of a 200 response the timeout makes it return the body-read error
\* ("error while reading data from templates body: ..."), both naming the
\* expired deadline and with no records; the body of a non-200 response is never
\* waited for.
C9_TerminatesOnTimeout ==
    /\ (pc \in {"do", "readAll", "unmarshal"}) ~> FetchReturned
    /\ [](requests <= 1)
    /\ [](pc = "readAll" => resStatus = 200)
    /\ []((Returned /\ ctxErr = DeadlineExceeded)
            => /\ elapsed = 5
               /\ templatesInfo = <<>>
               /\ Contains(templatesErr, DeadlineExceeded)
               /\ resStatus = 0
                    => HasPrefix(templatesErr, "error while requesting template list: ")
               /\ resStatus # 0
                    => /\ resStatus = 200
                       /\ HasPrefix(templatesErr, "error while reading data from templates body: "))

C9_Witness ==
    /\ Returned
    /\ ctxErr = DeadlineExceeded
    /\ resStatus = 200
    /\ bodyAcquired
    /\ requests = 1
    /\ elapsed = 5

\* C10: the platform flag is validated only after fetch and decode have
\* succeeded: the request is issued even when the platform is unsupported, and an
\* invocation with an unsupported platform whose fetch or decode fails ends in
\* the fetch/decode error without the invalid-platform message being printed.
C10_PlatformValidatedAfterFetch ==
    /\ formatCalls > 0 => requests = 1 /\ Fetched /\ bodyDrained
    /\ (pc # "start" /\ NewRequestOK(storeURL)) => requests = 1
    /\ (Returned /\ templatesErr # NilError /\ Unsupported(platform))
        => /\ HasPrefix(cmdErr, FetchErrorPrefix)
           /\ stdout = <<>>
           /\ formatCalls = 0

C10_Witness ==
    /\ Returned
    /\ platform = "mips"
    /\ requests = 1
    /\ resStatus = 200
    /\ IsDecodeError(templatesErr)
    /\ stdout = <<>>
====
